---------------------------- MODULE Spec2Model ----------------------------
(***************************************************************************)
(* Inventory service (src/index.js): an express application whose whole    *)
(* state is one JSON document, inventory.json, and the photo files multer  *)
(* stores beside it.  Every route handler loads the whole document,        *)
(* changes the parsed array in memory and writes the whole document back.  *)
(*                                                                         *)
(* The document is modelled by its content, a sequence of one-character    *)
(* tokens, so that JSON.stringify and JSON.parse are two different         *)
(* functions and a truncated or overlaid file is a value the model has.    *)
(* The constant text JSON.stringify(inventory, null, 2) puts around the    *)
(* values of an item (keys, colons, commas between the fields, the         *)
(* indentation) is folded into the item's braces.                          *)
(*                                                                         *)
(* Each request in flight occupies a slot of Procs.  An await of the code  *)
(* is a point where another slot may take a step: fs.readFile is one step  *)
(* (the documents here are far below its chunk size), fs.writeFile is two: *)
(* the open with flag 'w', which truncates, and the write at offset 0.     *)
(***************************************************************************)
EXTENDS Integers, Sequences, FiniteSets

\* ------------------------------------------------------------------ bounds
\* Requests the service is sent in one run, when requests may overlap.
MaxRequests == 2
\* Requests the service is sent in one run, when each is answered before the
\* next is sent.
MaxSeqRequests == 3

\* Slots for requests in flight.
Procs == {1, 2}

\* --------------------------------------------------------------- JS values
JsUndef == [t |-> "undefined", v |-> <<>>]
JsNull == [t |-> "null", v |-> <<>>]
Str(s) == [t |-> "string", v |-> s]

\* `!x` of JavaScript for undefined, null and strings.
Falsy(x) == x.t # "string" \/ x.v = <<>>

\* `a ?? b`
Nullish(a, b) == IF a.t \in {"undefined", "null"} THEN b ELSE a

\* `a || b`
OrElse(a, b) == IF Falsy(a) THEN b ELSE a

IsSpace(c) == c \in {" ", "\t"}

RECURSIVE TrimStart(_)
TrimStart(s) ==
  IF s # <<>> /\ IsSpace(Head(s)) THEN TrimStart(Tail(s)) ELSE s

RECURSIVE TrimEnd(_)
TrimEnd(s) ==
  IF s # <<>> /\ IsSpace(s[Len(s)]) THEN TrimEnd(SubSeq(s, 1, Len(s) - 1)) ELSE s

\* String.prototype.trim
Trim(s) == TrimEnd(TrimStart(s))

Digit(n) == <<"0", "1", "2", "3", "4", "5", "6", "7", "8", "9">>[n + 1]

\* Number.prototype.toString for a non-negative integer
RECURSIVE toString(_)
toString(n) ==
  IF n < 10 THEN <<Digit(n)>> ELSE toString(n \div 10) \o <<Digit(n % 10)>>

\* ------------------------------------------------------ JSON.stringify/parse
Q == "\""

SerStr(s) == <<Q>> \o s \o <<Q>>

SerVal(x) == IF x.t = "string" THEN SerStr(x.v) ELSE <<"null">>

SerItem(it) ==
  <<"{">> \o SerStr(it.id) \o SerStr(it.name) \o SerStr(it.description)
          \o SerVal(it.photoPath) \o <<"}">>

RECURSIVE SerItems(_)
SerItems(inv) ==
  IF inv = <<>> THEN <<>>
  ELSE IF Len(inv) = 1 THEN SerItem(inv[1])
  ELSE SerItem(inv[1]) \o <<",">> \o SerItems(Tail(inv))

\* JSON.stringify(inventory, null, 2)
Stringify(inv) == <<"[">> \o SerItems(inv) \o <<"]">>

ParseFail == [ok |-> FALSE, v |-> <<>>, next |-> 0]

\* Index of the first quote of s at or after i, 0 when there is none.
RECURSIVE NextQuote(_, _)
NextQuote(s, i) ==
  IF i > Len(s) THEN 0 ELSE IF s[i] = Q THEN i ELSE NextQuote(s, i + 1)

ParseStr(s, i) ==
  IF i >= 1 /\ i <= Len(s) /\ s[i] = Q
  THEN LET j == NextQuote(s, i + 1)
       IN  IF j = 0 THEN ParseFail
           ELSE [ok |-> TRUE, v |-> SubSeq(s, i + 1, j - 1), next |-> j + 1]
  ELSE ParseFail

ParseVal(s, i) ==
  IF i >= 1 /\ i <= Len(s) /\ s[i] = "null"
  THEN [ok |-> TRUE, v |-> JsNull, next |-> i + 1]
  ELSE LET r == ParseStr(s, i)
       IN  IF r.ok THEN [ok |-> TRUE, v |-> Str(r.v), next |-> r.next]
           ELSE ParseFail

\* The item four parsed values a, b, c, d make, when a closing brace follows.
ItemOf(s, a, b, c, d) ==
  IF a.ok /\ b.ok /\ c.ok /\ d.ok /\ d.next <= Len(s) /\ s[d.next] = "}"
  THEN [ok |-> TRUE,
        v |-> [id |-> a.v, name |-> b.v, description |-> c.v, photoPath |-> d.v],
        next |-> d.next + 1]
  ELSE ParseFail

ParseItem(s, i) ==
  IF i >= 1 /\ i <= Len(s) /\ s[i] = "{"
  THEN LET a == ParseStr(s, i + 1)
           b == ParseStr(s, a.next)
           c == ParseStr(s, b.next)
           d == ParseVal(s, c.next)
       IN  ItemOf(s, a, b, c, d)
  ELSE ParseFail

RECURSIVE ParseItems(_, _, _)

\* The rest of the array after its item r: a comma and more items, or the
\* closing bracket at the end of the text.
ItemsAfter(s, r, acc) ==
  IF ~r.ok \/ r.next > Len(s) THEN ParseFail
  ELSE IF s[r.next] = ","
       THEN ParseItems(s, r.next + 1, Append(acc, r.v))
  ELSE IF s[r.next] = "]" /\ r.next = Len(s)
       THEN [ok |-> TRUE, v |-> Append(acc, r.v), next |-> r.next + 1]
  ELSE ParseFail

ParseItems(s, i, acc) == ItemsAfter(s, ParseItem(s, i), acc)

\* JSON.parse of the document: ok is FALSE where JSON.parse throws.
JsonParse(s) ==
  IF Len(s) >= 2 /\ s[1] = "["
  THEN IF s[2] = "]"
       THEN IF Len(s) = 2 THEN [ok |-> TRUE, v |-> <<>>, next |-> 3]
            ELSE ParseFail
       ELSE ParseItems(s, 2, <<>>)
  ELSE ParseFail

\* loadInventory with a catch that returns a default item
loadInventoryDefault(raw) ==
  LET r == JsonParse(raw)
  IN  IF r.ok THEN r.v
      ELSE <<[id |-> <<"0">>, name |-> <<>>, description |-> <<>>, photoPath |-> JsNull]>>

\* loadInventory, after fs.readFile returned raw
loadInventory(raw) ==
  LET r == JsonParse(raw) IN IF r.ok THEN r.v ELSE <<>>

\* What fs.writeFile's write leaves in a file holding `old`: `data` at
\* offset 0, and whatever of `old` lies beyond it.
WriteAt0(old, data) ==
  IF Len(old) > Len(data)
  THEN data \o SubSeq(old, Len(data) + 1, Len(old))
  ELSE data

\* ------------------------------------------------------------ array helpers
\* Array.prototype.findIndex(x => x.id === id), 1-based; 0 for -1.
RECURSIVE FindFrom(_, _, _)
FindFrom(inv, id, i) ==
  IF i > Len(inv) THEN 0
  ELSE IF inv[i].id = id THEN i ELSE FindFrom(inv, id, i + 1)

findIndex(inv, id) == FindFrom(inv, id, 1)

\* inventory.splice(index): everything from index on goes.
spliceToEnd(inv, i) == SubSeq(inv, 1, i - 1)

\* inventory.splice(index, 1); index 0 stands for -1, which splice counts from
\* the end of the array.
splice(inv, i) ==
  LET k == IF i = 0 THEN Len(inv) ELSE i
  IN  SubSeq(inv, 1, k - 1) \o SubSeq(inv, k + 1, Len(inv))

\* inventory.unshift(item)
unshift(inv, item) == <<item>> \o inv

\* inventory.push(item)
push(inv, item) == Append(inv, item)

\* multer's destination path of the n-th stored upload
FilePath(n) == <<"f">> \o toString(n)

\* buildPhotoUrl(req, id)
buildPhotoUrl(id) == <<"/inventory/">> \o id \o <<"/photo">>

\* Path of an upload stored by an earlier run whose file is no longer in the
\* cache directory.
LostPath == FilePath(0)


\* -------------------------------------------------------------------- state
VARIABLES
  file,     \* content of inventory.json
  photos,   \* the uploads multer stored, in order: bytes and the item id they were sent for
  clock,    \* the last value Date.now() returned
  pending,  \* requests still to be sent in this run
  pc,       \* per slot: where its handler stands
  req,      \* per slot: the request (body, params, file)
  data,     \* per slot: what fs.readFile returned to loadInventory
  inv,      \* per slot: the handler's `inventory` array
  resp,     \* per slot: the response sent
  lastWrite, \* the slot whose write of the document was the latest, 0 for none in flight
  replaced, \* the item whose photo the latest answered requests replaced, and
            \* how many of them in a row did (counted up to two)
  deleted,  \* the ids a delete answered 200 removed since the last register came in
  registered \* when the latest answered request was a register answered 201:
            \* its body, the id it was answered and the length of the collection
            \* it wrote

vars == <<file, photos, clock, pending, pc, req, data, inv, resp, lastWrite, replaced, deleted, registered>>

NoReq ==
  [op |-> "none", id |-> <<>>, name |-> JsUndef, description |-> JsUndef,
   file |-> JsUndef, flag |-> FALSE]

NoResp == [status |-> 0]

NoneReplaced == [id |-> <<>>, n |-> 0]

\* `replaced` after request r was answered with a.
Replaced(was, r, a) ==
  IF r.op = "photo" /\ a.status = 200
  THEN IF was.id = r.id THEN [id |-> r.id, n |-> IF was.n = 0 THEN 1 ELSE 2]
       ELSE [id |-> r.id, n |-> 1]
  ELSE NoneReplaced

\* `deleted` after request r was answered with a.
Deleted(was, r, a) ==
  IF r.op = "delete" /\ a.status = 200 THEN was \cup {r.id} ELSE was

NoneRegistered == [n |-> 0]

\* `registered` after request r, which wrote `inventory`, was answered with a.
Registered(r, a, inventory) ==
  IF r.op = "register" /\ a.status = 201
  THEN [n |-> Len(inventory), id |-> a.id, name |-> r.name,
        description |-> r.description, file |-> r.file]
  ELSE NoneRegistered

\* ------------------------------------------------------------------- inputs
Payloads == {"x", "y"}

RegNames == {JsUndef, Str(<<>>), Str(<<" ">>), Str(<<"a">>)}

RegPhotos == {"none", "y"}

RegDescs == {JsUndef, Str(<<"d">>)}

UpdNames == {JsUndef, Str(<<>>), Str(<<"a", "b">>)}

UpdDescs == {JsUndef, Str(<<"e">>)}

ReqIds == {toString(1), toString(2)}

\* Ids get-photo is sent for: also the item whose file is lost.
PhotoIds == ReqIds \cup {toString(3)}

\* A document left by an earlier run of the service: ensureCacheDir keeps it.
Seed ==
  << [id |-> toString(1), name |-> <<"a">>, description |-> <<>>,
      photoPath |-> JsNull],
     [id |-> toString(2), name |-> <<"b">>, description |-> <<"d">>,
      photoPath |-> Str(FilePath(1))],
     [id |-> toString(3), name |-> <<"c">>, description |-> <<>>,
      photoPath |-> Str(LostPath)] >>

SeedPhotos == << [bytes |-> "x", target |-> toString(2)] >>

SeedSizes == {0, 1, 3}

\* First clock value of this run: later than every id of the seed.
StartClock == Len(Seed) + 1

Start(n) ==
  /\ \E k \in SeedSizes :
       /\ file = Stringify(SubSeq(Seed, 1, k))
       /\ photos = IF k >= 2 THEN SeedPhotos ELSE <<>>
  /\ clock = StartClock
  /\ pending = n
  /\ pc = [p \in Procs |-> "idle"]
  /\ req = [p \in Procs |-> NoReq]
  /\ data = [p \in Procs |-> <<>>]
  /\ inv = [p \in Procs |-> <<>>]
  /\ resp = [p \in Procs |-> NoResp]
  /\ lastWrite = 0
  /\ replaced = NoneReplaced
  /\ deleted = {}
  /\ registered = NoneRegistered

Init == Start(MaxRequests)

InitSeq == Start(MaxSeqRequests)

\* A request is given the lowest free slot.
Accepts(p) ==
  /\ pending > 0
  /\ pc[p] = "idle"
  /\ \A q \in Procs : q < p => pc[q] # "idle"

\* upload.single("photo"): multer stores the file before the handler runs.
Upload(photo, target) ==
  IF photo = "none" THEN photos
  ELSE Append(photos, [bytes |-> photo, target |-> target])

UploadedFile(photo) ==
  IF photo = "none" THEN JsUndef ELSE Str(FilePath(Len(photos) + 1))

\* The handlers' common first await: loadInventory's fs.readFile.
LoadRead(p) ==
  /\ pc[p] = "load"
  /\ data' = [data EXCEPT ![p] = file]
  /\ pc' = [pc EXCEPT ![p] = "resume"]
  /\ UNCHANGED <<file, photos, clock, pending, req, inv, resp, lastWrite, replaced, deleted, registered>>

\* fs.writeFile, first half: open(INVENTORY_FILE, 'w') truncates the file.
SaveOpen(p) ==
  /\ pc[p] = "open"
  /\ file' = <<>>
  /\ pc' = [pc EXCEPT ![p] = "write"]
  /\ UNCHANGED <<photos, clock, pending, req, data, inv, resp, lastWrite, replaced, deleted, registered>>

\* fs.writeFile, second half: the write of the serialized array at offset 0.
SaveWrite(p) ==
  /\ pc[p] = "write"
  /\ file' = WriteAt0(file, Stringify(inv[p]))
  /\ pc' = [pc EXCEPT ![p] = "respond"]
  /\ lastWrite' = p
  /\ UNCHANGED <<photos, clock, pending, req, data, inv, resp, replaced, deleted, registered>>

\* The response is sent and the slot is free again.
Finish(p) ==
  /\ pc[p] = "done"
  /\ pc' = [pc EXCEPT ![p] = "idle"]
  /\ req' = [req EXCEPT ![p] = NoReq]
  /\ data' = [data EXCEPT ![p] = <<>>]
  /\ inv' = [inv EXCEPT ![p] = <<>>]
  /\ resp' = [resp EXCEPT ![p] = NoResp]
  /\ lastWrite' = IF lastWrite = p THEN 0 ELSE lastWrite
  /\ replaced' = Replaced(replaced, req[p], resp[p])
  /\ deleted' = Deleted(deleted, req[p], resp[p])
  /\ registered' = Registered(req[p], resp[p], inv[p])
  /\ UNCHANGED <<file, photos, clock, pending>>

Reply(p, r) ==
  /\ resp' = [resp EXCEPT ![p] = r]
  /\ pc' = [pc EXCEPT ![p] = "done"]

\* ---------------------------------------------------------- POST /register
\* The test without the trim.
RegisterInvalidNoTrim(name) == Falsy(name)

\* !inventory_name || inventory_name.trim() === ""
RegisterInvalid(name) == Falsy(name) \/ Trim(name.v) = <<>>

Register(p, name, description, photo) ==
  /\ Accepts(p)
  /\ pending' = pending - 1
  /\ photos' = Upload(photo, <<>>)
  /\ req' = [req EXCEPT ![p] =
       [NoReq EXCEPT !.op = "register", !.name = name,
                     !.description = description, !.file = UploadedFile(photo)]]
  /\ IF RegisterInvalid(name)
     THEN Reply(p, [status |-> 400])
     ELSE /\ pc' = [pc EXCEPT ![p] = "load"]
          /\ resp' = resp
  /\ deleted' = {}
  /\ UNCHANGED <<file, clock, data, inv, lastWrite, replaced, registered>>

NewItem(id, r) ==
  [id |-> id, name |-> r.name.v,
   description |-> OrElse(r.description, Str(<<>>)).v,
   photoPath |-> IF Falsy(r.file) THEN JsNull ELSE r.file]

\* photos, with the upload stored at `path` recorded as sent for item `id`.
Assign(path, id) ==
  [n \in DOMAIN photos |->
     IF Str(FilePath(n)) = path THEN [photos[n] EXCEPT !.target = id] ELSE photos[n]]

\* `now` is what Date.now() returns: the clock has moved on since it was last
\* read, or it has not.
RegisterResume(p, now) ==
  /\ pc[p] = "resume"
  /\ req[p].op = "register"
  /\ clock' = now
  /\ LET id == toString(now)
     IN  /\ inv' = [inv EXCEPT ![p] = push(loadInventory(data[p]), NewItem(id, req[p]))]
         /\ req' = [req EXCEPT ![p].id = id]
         /\ photos' = Assign(req[p].file, id)
  /\ pc' = [pc EXCEPT ![p] = "open"]
  /\ UNCHANGED <<file, pending, data, resp, lastWrite, replaced, deleted, registered>>

RegisterRespond(p) ==
  /\ pc[p] = "respond"
  /\ req[p].op = "register"
  /\ LET item == inv[p][Len(inv[p])]
     IN  Reply(p, [status |-> 201, id |-> req[p].id, name |-> item.name,
                   description |-> item.description,
                   photoUrl |-> IF Falsy(item.photoPath) THEN JsNull
                                ELSE Str(buildPhotoUrl(req[p].id))])
  /\ UNCHANGED <<file, photos, clock, pending, req, data, inv, lastWrite, replaced, deleted, registered>>

\* -------------------------------------------------------- PUT /inventory/:id
Update(p, id, name, description) ==
  /\ Accepts(p)
  /\ pending' = pending - 1
  /\ req' = [req EXCEPT ![p] =
       [NoReq EXCEPT !.op = "update", !.id = id, !.name = name,
                     !.description = description]]
  /\ pc' = [pc EXCEPT ![p] = "load"]
  /\ UNCHANGED <<file, photos, clock, data, inv, resp, lastWrite, replaced, deleted, registered>>

\* item.name = req.body.name, and the same for description
UpdateItemNoKeep(item, r) ==
  [item EXCEPT !.name = r.name.v, !.description = r.description.v]

\* item.name = req.body.name ?? item.name, and the same for description
UpdateItem(item, r) ==
  [item EXCEPT !.name = Nullish(r.name, Str(item.name)).v,
               !.description = Nullish(r.description, Str(item.description)).v]

UpdateResume(p) ==
  /\ pc[p] = "resume"
  /\ req[p].op = "update"
  /\ LET inventory == loadInventory(data[p])
         i == findIndex(inventory, req[p].id)
     IN  IF i = 0
         THEN /\ Reply(p, [status |-> 404])
              /\ inv' = inv
         ELSE /\ inv' = [inv EXCEPT ![p] =
                   [inventory EXCEPT ![i] = UpdateItem(inventory[i], req[p])]]
              /\ pc' = [pc EXCEPT ![p] = "open"]
              /\ resp' = resp
  /\ UNCHANGED <<file, photos, clock, pending, req, data, lastWrite, replaced, deleted, registered>>

UpdateRespond(p) ==
  /\ pc[p] = "respond"
  /\ req[p].op = "update"
  /\ LET item == inv[p][findIndex(inv[p], req[p].id)]
     IN  Reply(p, [status |-> 200, id |-> item.id, name |-> item.name,
                   description |-> item.description])
  /\ UNCHANGED <<file, photos, clock, pending, req, data, inv, lastWrite, replaced, deleted, registered>>

\* -------------------------------------------------- PUT /inventory/:id/photo
ReplacePhoto(p, id, photo) ==
  /\ Accepts(p)
  /\ pending' = pending - 1
  /\ photos' = Upload(photo, id)
  /\ req' = [req EXCEPT ![p] =
       [NoReq EXCEPT !.op = "photo", !.id = id, !.file = UploadedFile(photo)]]
  /\ pc' = [pc EXCEPT ![p] = "load"]
  /\ UNCHANGED <<file, clock, data, inv, resp, lastWrite, replaced, deleted, registered>>

\* item.photoPath = item.photoPath || req.file.path
SetPhotoIfNone(item, r) ==
  [item EXCEPT !.photoPath = OrElse(item.photoPath, r.file)]

\* item.photoPath = req.file.path
SetPhoto(item, r) == [item EXCEPT !.photoPath = r.file]

\* The test left out.
MissingFileNever(r) == FALSE

\* !req.file
MissingFile(r) == Falsy(r.file)

PhotoResume(p) ==
  /\ pc[p] = "resume"
  /\ req[p].op = "photo"
  /\ LET inventory == loadInventory(data[p])
         i == findIndex(inventory, req[p].id)
     IN  IF i = 0
         THEN /\ Reply(p, [status |-> 404])
              /\ inv' = inv
         ELSE IF MissingFile(req[p])
         THEN /\ Reply(p, [status |-> 400])
              /\ inv' = inv
         ELSE /\ inv' = [inv EXCEPT ![p] =
                   [inventory EXCEPT ![i] = SetPhoto(inventory[i], req[p])]]
              /\ pc' = [pc EXCEPT ![p] = "open"]
              /\ resp' = resp
  /\ UNCHANGED <<file, photos, clock, pending, req, data, lastWrite, replaced, deleted, registered>>

PhotoRespond(p) ==
  /\ pc[p] = "respond"
  /\ req[p].op = "photo"
  /\ Reply(p, [status |-> 200, photoUrl |-> Str(buildPhotoUrl(req[p].id))])
  /\ UNCHANGED <<file, photos, clock, pending, req, data, inv, lastWrite, replaced, deleted, registered>>

\* ----------------------------------------------------- DELETE /inventory/:id
Delete(p, id) ==
  /\ Accepts(p)
  /\ pending' = pending - 1
  /\ req' = [req EXCEPT ![p] = [NoReq EXCEPT !.op = "delete", !.id = id]]
  /\ pc' = [pc EXCEPT ![p] = "load"]
  /\ UNCHANGED <<file, photos, clock, data, inv, resp, lastWrite, replaced, deleted, registered>>

\* The test left out.
NotFoundNever(index) == FALSE

\* index === -1
NotFound(index) == index = 0

DeleteResume(p) ==
  /\ pc[p] = "resume"
  /\ req[p].op = "delete"
  /\ LET inventory == loadInventory(data[p])
         index == findIndex(inventory, req[p].id)
     IN  IF NotFound(index)
         THEN /\ Reply(p, [status |-> 404])
              /\ inv' = inv
         ELSE /\ inv' = [inv EXCEPT ![p] = splice(inventory, index)]
              /\ pc' = [pc EXCEPT ![p] = "open"]
              /\ resp' = resp
  /\ UNCHANGED <<file, photos, clock, pending, req, data, lastWrite, replaced, deleted, registered>>

DeleteRespond(p) ==
  /\ pc[p] = "respond"
  /\ req[p].op = "delete"
  /\ Reply(p, [status |-> 200, id |-> req[p].id])
  /\ UNCHANGED <<file, photos, clock, pending, req, data, inv, lastWrite, replaced, deleted, registered>>

\* ------------------------------------------------ GET /inventory/:id/photo
GetPhoto(p, id) ==
  /\ Accepts(p)
  /\ pending' = pending - 1
  /\ req' = [req EXCEPT ![p] = [NoReq EXCEPT !.op = "getPhoto", !.id = id]]
  /\ pc' = [pc EXCEPT ![p] = "load"]
  /\ UNCHANGED <<file, photos, clock, data, inv, resp, lastWrite, replaced, deleted, registered>>

GetPhotoResume(p) ==
  /\ pc[p] = "resume"
  /\ req[p].op = "getPhoto"
  /\ LET inventory == loadInventory(data[p])
         i == findIndex(inventory, req[p].id)
     IN  /\ inv' = [inv EXCEPT ![p] = inventory]
         /\ IF i = 0 \/ Falsy(inventory[i].photoPath)
            THEN Reply(p, [status |-> 404])
            ELSE /\ pc' = [pc EXCEPT ![p] = "photo"]
                 /\ resp' = resp
  /\ UNCHANGED <<file, photos, clock, pending, req, data, lastWrite, replaced, deleted, registered>>

\* The stored upload a path names: its place in photos, 0 when no file of the
\* cache directory has that path.
Stored(path) ==
  IF \E k \in DOMAIN photos : Str(FilePath(k)) = path
  THEN CHOOSE k \in DOMAIN photos : Str(FilePath(k)) = path
  ELSE 0

\* await fs.readFile(item.photoPath) and res.end(data).  When readFile rejects
\* nothing catches it: the handler's promise is rejected and no response is
\* ever sent on the request.
ServePhoto(p, n) ==
  IF n = 0
  THEN /\ pc' = [pc EXCEPT ![p] = "fault"]
       /\ resp' = resp
  ELSE Reply(p, [status |-> 200, bytes |-> photos[n].bytes])

ReadPhoto(p) ==
  /\ pc[p] = "photo"
  /\ ServePhoto(p, Stored(inv[p][findIndex(inv[p], req[p].id)].photoPath))
  /\ UNCHANGED <<file, photos, clock, pending, req, data, inv, lastWrite, replaced, deleted, registered>>

\* ------------------------------------------------------------ POST /search
Search(p, id, has_photo) ==
  /\ Accepts(p)
  /\ pending' = pending - 1
  /\ req' = [req EXCEPT ![p] = [NoReq EXCEPT !.op = "search", !.id = id, !.flag = has_photo]]
  /\ pc' = [pc EXCEPT ![p] = "load"]
  /\ UNCHANGED <<file, photos, clock, data, inv, resp, lastWrite, replaced, deleted, registered>>

\* The note: `\nPhoto: ${buildPhotoUrl(req, id)}`
PhotoNote(id) == <<"\nPhoto: ">> \o buildPhotoUrl(id)

\* if (has_photo) desc += note
SearchDescriptionAnyItem(item, r) ==
  IF r.flag THEN item.description \o PhotoNote(r.id) ELSE item.description

\* let desc = item.description; if (has_photo && item.photoPath) desc += note
SearchDescription(item, r) ==
  IF r.flag /\ ~Falsy(item.photoPath)
  THEN item.description \o PhotoNote(r.id)
  ELSE item.description

SearchResult(item, r) ==
  [status |-> 200, id |-> item.id, name |-> item.name,
   description |-> SearchDescription(item, r),
   hasPhoto |-> ~Falsy(item.photoPath)]

SearchResume(p) ==
  /\ pc[p] = "resume"
  /\ req[p].op = "search"
  /\ LET inventory == loadInventory(data[p])
         i == findIndex(inventory, req[p].id)
     IN  IF i = 0
         THEN Reply(p, [status |-> 404])
         ELSE Reply(p, SearchResult(inventory[i], req[p]))
  /\ UNCHANGED <<file, photos, clock, pending, req, data, inv, lastWrite, replaced, deleted, registered>>

\* ----------------------------------------------------------- GET /inventory
List(p) ==
  /\ Accepts(p)
  /\ pending' = pending - 1
  /\ req' = [req EXCEPT ![p] = [NoReq EXCEPT !.op = "list"]]
  /\ pc' = [pc EXCEPT ![p] = "load"]
  /\ UNCHANGED <<file, photos, clock, data, inv, resp, lastWrite, replaced, deleted, registered>>

\* What list and get show of an item.
Entry(item) ==
  [id |-> item.id, name |-> item.name, description |-> item.description,
   photoUrl |-> IF Falsy(item.photoPath) THEN JsNull ELSE Str(buildPhotoUrl(item.id))]

\* inventory.map(item => ({...}))
Entries(inventory) == [k \in 1..Len(inventory) |-> Entry(inventory[k])]

ListResume(p) ==
  /\ pc[p] = "resume"
  /\ req[p].op = "list"
  /\ Reply(p, [status |-> 200, items |-> Entries(loadInventory(data[p]))])
  /\ UNCHANGED <<file, photos, clock, pending, req, data, inv, lastWrite, replaced, deleted, registered>>

\* ------------------------------------------------------- GET /inventory/:id
Get(p, id) ==
  /\ Accepts(p)
  /\ pending' = pending - 1
  /\ req' = [req EXCEPT ![p] = [NoReq EXCEPT !.op = "get", !.id = id]]
  /\ pc' = [pc EXCEPT ![p] = "load"]
  /\ UNCHANGED <<file, photos, clock, data, inv, resp, lastWrite, replaced, deleted, registered>>

GetResume(p) ==
  /\ pc[p] = "resume"
  /\ req[p].op = "get"
  /\ LET inventory == loadInventory(data[p])
         i == findIndex(inventory, req[p].id)
     IN  IF i = 0
         THEN Reply(p, [status |-> 404])
         ELSE Reply(p, [status |-> 200, item |-> Entry(inventory[i])])
  /\ UNCHANGED <<file, photos, clock, pending, req, data, inv, lastWrite, replaced, deleted, registered>>

Handler(p) ==
  \/ LoadRead(p)
  \/ \E now \in {clock, clock + 1} : RegisterResume(p, now)
  \/ UpdateResume(p)
  \/ PhotoResume(p)
  \/ DeleteResume(p)
  \/ GetPhotoResume(p)
  \/ ReadPhoto(p)
  \/ SearchResume(p)
  \/ ListResume(p)
  \/ GetResume(p)
  \/ SaveOpen(p)
  \/ SaveWrite(p)
  \/ RegisterRespond(p)
  \/ UpdateRespond(p)
  \/ PhotoRespond(p)
  \/ DeleteRespond(p)
  \/ Finish(p)

Request(p) ==
  \/ \E name \in RegNames, description \in RegDescs, photo \in RegPhotos :
       Register(p, name, description, photo)
  \/ \E id \in ReqIds, name \in UpdNames, description \in UpdDescs :
       Update(p, id, name, description)
  \/ \E id \in ReqIds, photo \in Payloads \cup {"none"} : ReplacePhoto(p, id, photo)
  \/ \E id \in ReqIds : Delete(p, id)
  \/ \E id \in PhotoIds : GetPhoto(p, id)
  \/ \E id \in ReqIds, has_photo \in BOOLEAN : Search(p, id, has_photo)
  \/ List(p)
  \/ \E id \in ReqIds : Get(p, id)

Next ==
  \/ \E p \in Procs : Request(p)
  \/ \E p \in Procs : Handler(p)

Spec == Init /\ [][Next]_vars

\* The same service when a client sends each request after the answer to the
\* one before: one slot is ever in use.
NextSeq ==
  \/ Request(1)
  \/ Handler(1)

SeqSpec == InitSeq /\ [][NextSeq]_vars


\* ------------------------------------------------------------------ claims
\* The collection a request loading the document now would get.
Persisted == loadInventory(file)

Idle == \A p \in Procs : pc[p] = "idle"

Mutating(p) == req[p].op \in {"register", "update", "photo", "delete"}

\* Slot p has written the document for its request and has not left yet.
Saved(p) == Mutating(p) /\ (pc[p] = "respond" \/ (pc[p] = "done" /\ resp[p].status < 300))

DistinctIds(c) == \A i, j \in 1..Len(c) : i # j => c[i].id # c[j].id

\* C1: in every reachable state the ids of the persisted collection are
\* pairwise distinct, also when two registers read the clock in the same
\* millisecond.
C1_UniqueIds == DistinctIds(Persisted)

\* C2: when two mutating requests both loaded the document before either of
\* them saved, the document after both saves is exactly the collection the
\* later of the two wrote.
C2_LastWriterWins ==
  \A p, q \in Procs :
    ( /\ p # q
      /\ Saved(p) /\ Saved(q)
      /\ data[p] = data[q]
      /\ lastWrite = q )
    => file = Stringify(inv[q])

\* C3: a save is atomic as a load sees it: what a load reads is a complete
\* document, never a half-written one that makes it fall back to the empty
\* collection.
C3_LoadSeesWholeDocument ==
  \A p \in Procs : pc[p] = "resume" => JsonParse(data[p]).ok


\* What slot p's handler got from loadInventory.
Loaded(p) == loadInventory(data[p])

\* Slot p takes a step.
Steps(p) == pc'[p] # pc[p]

\* Slot p's write of the document lands in the file its own open emptied.
WritesAlone(p) == pc[p] = "write" /\ pc'[p] = "respond" /\ file = <<>>

\* A name that is missing, empty or only whitespace.
Blank(x) == x.t # "string" \/ \A k \in 1..Len(x.v) : IsSpace(x.v[k])

C4_Step(p) ==
  (Steps(p) /\ req'[p].op = "register" /\ Blank(req'[p].name))
  => (pc'[p] = "done" /\ resp'[p].status = 400 /\ file' = file)

\* C4: a register whose name is missing, empty or only whitespace is answered
\* 400 at once; the document is not touched and the handler never gets to a
\* load or a save.
C4_BlankNameRejected == [][\A p \in Procs : C4_Step(p)]_vars

C4_Witness ==
  \E p \in Procs :
    /\ pc[p] = "done" /\ req[p].op = "register"
    /\ req[p].name = Str(<<" ">>)
    /\ resp[p].status = 400
    /\ Len(Persisted) = 3

Absent(x) == x.t = "undefined"

C5_Applied(p) ==
  (pc[p] = "resume" /\ req[p].op = "update" /\ pc'[p] = "open")
  => LET old == Loaded(p)
         new == inv'[p]
     IN  /\ Len(new) = Len(old)
         /\ \A k \in 1..Len(old) :
              /\ new[k].id = old[k].id
              /\ new[k].photoPath = old[k].photoPath
              /\ Absent(req[p].name) => new[k].name = old[k].name
              /\ Absent(req[p].description) => new[k].description = old[k].description
              /\ old[k].id # req[p].id => new[k] = old[k]

C5_Written(p) ==
  (WritesAlone(p) /\ req[p].op = "update") => loadInventory(file') = inv[p]

C5_Answered(p) ==
  (pc[p] = "respond" /\ req[p].op = "update" /\ Steps(p))
  => \E k \in 1..Len(Loaded(p)) :
       /\ Loaded(p)[k].id = req[p].id
       /\ \A j \in 1..(k - 1) : Loaded(p)[j].id # req[p].id
       /\ resp'[p].status = 200
       /\ resp'[p].id = req[p].id
       /\ Absent(req[p].name) => resp'[p].name = Loaded(p)[k].name
       /\ Absent(req[p].description) => resp'[p].description = Loaded(p)[k].description

\* C5: update-fields changes only the fields the body supplies: in the
\* collection it writes, every item keeps its id and photoPath, a name or
\* description absent from the body keeps the loaded value, items with another
\* id are untouched; the document it writes reads back as that collection, and
\* the response carries the untouched values.
C5_UpdateKeepsAbsentFields ==
  [][\A p \in Procs : C5_Applied(p) /\ C5_Written(p) /\ C5_Answered(p)]_vars

C5_Witness ==
  \E p \in Procs :
    /\ pc[p] = "done" /\ req[p].op = "update" /\ req[p].id = toString(2)
    /\ Absent(req[p].name) /\ req[p].description = Str(<<"e">>)
    /\ resp[p].status = 200 /\ resp[p].name = <<"b">>
    /\ Len(Persisted) = 3
    /\ Persisted[2].name = <<"b">> /\ Persisted[2].description = <<"e">>
    /\ Persisted[2].photoPath = Str(FilePath(1))

\* C6: in every reachable state every persisted item has a non-empty name.
C6_NamesNonEmpty == \A k \in 1..Len(Persisted) : Persisted[k].name # <<>>

\* The latest upload sent for item id: its place in photos, 0 for none.
LatestUpload(id) ==
  LET S == {n \in DOMAIN photos : photos[n].target = id}
  IN  IF S = {} THEN 0 ELSE CHOOSE n \in S : \A m \in S : m <= n

\* C7: whenever no request is in flight (and the ids are distinct), the
\* photoPath of a persisted item, when present, is the file uploaded most
\* recently for that item, also after overlapping replace-photo requests.
C7_PhotoIsLatestUpload ==
  (Idle /\ DistinctIds(Persisted))
  => \A k \in 1..Len(Persisted) :
       Persisted[k].photoPath.t = "string"
       => Persisted[k].photoPath = Str(FilePath(LatestUpload(Persisted[k].id)))

\* C8: after two replace-photo requests on the same item were answered 200
\* one after the other, a get-photo for that item returns the bytes of the
\* second upload.
C8_SecondPhotoServed ==
  \A p \in Procs :
    (pc[p] = "done" /\ req[p].op = "getPhoto"
       /\ replaced.n = 2 /\ replaced.id = req[p].id)
    => (resp[p].status = 200 /\ resp[p].bytes = photos[Len(photos)].bytes)

C8_Witness ==
  \E p \in Procs :
    /\ pc[p] = "done" /\ req[p].op = "getPhoto"
    /\ replaced.n = 2 /\ replaced.id = req[p].id
    /\ resp[p].status = 200
    /\ resp[p].bytes = photos[Len(photos)].bytes
    /\ resp[p].bytes # photos[Len(photos) - 1].bytes

NoMatch(p) == \A k \in 1..Len(Loaded(p)) : Loaded(p)[k].id # req[p].id

C9_Step(p) ==
  /\ (pc[p] = "resume" /\ req[p].op = "delete" /\ Steps(p) /\ NoMatch(p))
     => (pc'[p] = "done" /\ resp'[p].status = 404 /\ file' = file)
  /\ (pc[p] = "done" /\ req[p].op = "delete" /\ resp[p].status = 404 /\ Steps(p))
     => (pc'[p] = "idle" /\ file' = file)

\* C9: a delete whose id matches no item of the collection it loaded is
\* answered 404 and the handler ends without writing the document.
C9_DeleteMissingIs404 == [][\A p \in Procs : C9_Step(p)]_vars

C9_Witness ==
  \E p \in Procs :
    /\ pc[p] = "done" /\ req[p].op = "delete" /\ req[p].id = toString(2)
    /\ Len(Loaded(p)) = 1
    /\ resp[p].status = 404
    /\ file = data[p]

C10_Step(p) ==
  /\ (pc[p] = "resume" /\ req[p].op = "delete" /\ pc'[p] = "open")
     => LET old == Loaded(p)
            new == inv'[p]
        IN  \E k \in 1..Len(old) :
              /\ old[k].id = req[p].id
              /\ Len(new) = Len(old) - 1
              /\ \A j \in 1..Len(new) : new[j] = IF j < k THEN old[j] ELSE old[j + 1]
  /\ (WritesAlone(p) /\ req[p].op = "delete") => loadInventory(file') = inv[p]
  /\ (req[p].op = "delete" /\ pc'[p] = "done" /\ Steps(p) /\ resp'[p].status = 200)
     => (pc[p] = "respond" /\ resp'[p].id = req[p].id)

\* C10: a delete answered 200 wrote the collection it loaded with exactly one
\* item taken out, one whose id is the request's, the others unchanged and in
\* their order; the document it writes reads back as that collection.
C10_DeleteRemovesOne == [][\A p \in Procs : C10_Step(p)]_vars

C10_Witness ==
  \E p \in Procs :
    /\ pc[p] = "done" /\ req[p].op = "delete" /\ req[p].id = toString(2)
    /\ resp[p].status = 200
    /\ Loaded(p) = Seed
    /\ Persisted = <<Seed[1], Seed[3]>>

HasPhoto(item) == item.photoPath.t = "string" /\ item.photoPath.v # <<>>

\* The first item of c with this id: its place, 0 for none.
First(c, id) ==
  IF \E k \in 1..Len(c) : c[k].id = id
  THEN CHOOSE k \in 1..Len(c) : c[k].id = id /\ \A j \in 1..(k - 1) : c[j].id # id
  ELSE 0

C11_Answer(stored, r, a) ==
  /\ a.status = 200
  /\ a.id = stored.id /\ a.name = stored.name
  /\ a.hasPhoto = HasPhoto(stored)
  /\ a.description =
       IF r.flag /\ HasPhoto(stored)
       THEN stored.description \o <<"\nPhoto: ">> \o <<"/inventory/">> \o stored.id \o <<"/photo">>
       ELSE stored.description

C11_Step(p) ==
  /\ (Steps(p) /\ (req[p].op = "search" \/ req'[p].op = "search")) => file' = file
  /\ (pc[p] = "resume" /\ req[p].op = "search" /\ Steps(p))
     => /\ pc'[p] = "done"
        /\ IF First(Loaded(p), req[p].id) = 0
           THEN resp'[p].status = 404
           ELSE C11_Answer(Loaded(p)[First(Loaded(p), req[p].id)], req[p], resp'[p])

\* C11: no step of a search changes the document; its answer carries the
\* stored description with the photo note appended exactly when the flag is
\* set and the item has a photo, and hasPhoto tells whether it has one: for an
\* item without a photo the description is the stored one and hasPhoto is
\* false, whatever the flag.
C11_SearchReadsOnly == [][\A p \in Procs : C11_Step(p)]_vars

C11_Witness ==
  \E p, q \in Procs :
    /\ pc[p] = "done" /\ req[p].op = "search" /\ req[p].flag
    /\ req[p].id = toString(1) /\ resp[p].status = 200
    /\ resp[p].description = <<>> /\ ~resp[p].hasPhoto
    /\ pc[q] = "done" /\ req[q].op = "search" /\ req[q].flag
    /\ req[q].id = toString(2) /\ resp[q].status = 200 /\ resp[q].hasPhoto
    /\ resp[q].description = <<"d", "\nPhoto: ", "/inventory/", "2", "/photo">>
    /\ Persisted = Seed

\* What list shows of the item the latest register created.
C12_Entry ==
  [id |-> registered.id,
   name |-> registered.name.v,
   description |-> IF registered.description.t = "string"
                   THEN registered.description.v ELSE <<>>,
   photoUrl |-> IF registered.file.t = "string"
                THEN Str(<<"/inventory/">> \o registered.id \o <<"/photo">>)
                ELSE JsNull]

C12_Listed ==
  \A p \in Procs :
    (pc[p] = "done" /\ req[p].op = "list" /\ registered.n > 0)
    => /\ resp[p].status = 200
       /\ Len(resp[p].items) = registered.n
       /\ resp[p].items[registered.n] = C12_Entry

C12_Appended(p) ==
  (pc[p] = "resume" /\ req[p].op = "register" /\ Steps(p))
  => /\ pc'[p] = "open"
     /\ Len(inv'[p]) = Len(Loaded(p)) + 1
     /\ SubSeq(inv'[p], 1, Len(Loaded(p))) = Loaded(p)

\* C12: a list sent right after a register was answered 201 returns as many
\* entries as the collection the register wrote, the last of them with the
\* register's name, its description (empty when omitted), the id the register
\* returned and photoUrl null when no photo was sent: exactly that one entry
\* when the collection was empty; and the collection a register writes is
\* the one it loaded with the new item after all its items.
C12_RegisterListRoundTrip ==
  []C12_Listed /\ [][\A p \in Procs : C12_Appended(p)]_vars

C12_Witness ==
  \E p \in Procs :
    /\ pc[p] = "done" /\ req[p].op = "list"
    /\ registered.n = 1 /\ registered.name = Str(<<"a">>)
    /\ registered.description = JsUndef /\ registered.file = JsUndef
    /\ resp[p].items =
         <<[id |-> toString(StartClock), name |-> <<"a">>, description |-> <<>>,
            photoUrl |-> JsNull]>>

\* No file of the cache directory has this path.
NoSuchFile(path) == \A k \in DOMAIN photos : <<"f">> \o toString(k) # path

\* Slot p's get-photo is in one of the three cases: no item has the id, the
\* item has no photoPath, or its photoPath names no file.
C13_Case(p) ==
  \/ First(Loaded(p), req[p].id) = 0
  \/ ~HasPhoto(Loaded(p)[First(Loaded(p), req[p].id)])
  \/ NoSuchFile(Loaded(p)[First(Loaded(p), req[p].id)].photoPath.v)

\* C13: a get-photo whose handler has ended in one of the three cases (no
\* such item, no photoPath, photoPath naming a file that cannot be read) was
\* answered 404; it never ends without a response.
C13_GetPhotoAnswers404 ==
  \A p \in Procs :
    (req[p].op = "getPhoto" /\ pc[p] \in {"done", "fault"} /\ C13_Case(p))
    => (pc[p] = "done" /\ resp[p].status = 404)

C14_Step(p) ==
  /\ (pc[p] = "resume" /\ req[p].op = "photo" /\ Steps(p))
     => IF First(Loaded(p), req[p].id) = 0
        THEN pc'[p] = "done" /\ resp'[p].status = 404 /\ file' = file
        ELSE IF req[p].file.t # "string"
        THEN pc'[p] = "done" /\ resp'[p].status = 400 /\ file' = file
        ELSE pc'[p] = "open"
  /\ (pc[p] = "done" /\ req[p].op = "photo" /\ resp[p].status \in {400, 404} /\ Steps(p))
     => (pc'[p] = "idle" /\ file' = file)

\* C14: a replace-photo whose id matches no item of the collection it loaded
\* is answered 404, also when it carries no file; one whose item exists and
\* which carries no file is answered 400; in both cases the handler ends
\* without writing the document, so every photoPath stays as it was.
C14_ReplacePhotoFailures == [][\A p \in Procs : C14_Step(p)]_vars

C14_Witness ==
  \E p \in Procs :
    /\ pc[p] = "done" /\ req[p].op = "photo" /\ req[p].id = toString(2)
    /\ req[p].file = JsUndef
    /\ resp[p].status = 400
    /\ Persisted = Seed

\* Slot p's save, which has begun, replaces the document with inv[p]: the
\* item with this id, which p loaded, is in the document and in inv[p] with
\* another photoPath.
C15_Changes(p, id) ==
  /\ First(Persisted, id) # 0
  /\ First(Loaded(p), id) # 0
  /\ First(inv[p], id) # 0
  /\ inv[p][First(inv[p], id)].photoPath # Persisted[First(Persisted, id)].photoPath

\* C15: the photoPath of an item that exists changes only by a replace-photo
\* request for that item: a save that begins on a document holding the item
\* writes the item with another photoPath only when it is the save of a
\* replace-photo for that id, in every interleaving of requests.
C15_OnlyReplacePhotoChangesPhoto ==
  \A p \in Procs :
    (pc[p] = "open" /\ DistinctIds(Persisted) /\ DistinctIds(inv[p]))
    => \A k \in 1..Len(Persisted) :
         C15_Changes(p, Persisted[k].id)
         => (req[p].op = "photo" /\ req[p].id = Persisted[k].id)

\* The text is a serialized collection.
Valid(s) == JsonParse(s).ok

C16_Step(p) ==
  \* the load reads the document as it is and always returns
  /\ (pc[p] = "load" /\ Steps(p)) => (pc'[p] = "resume" /\ data'[p] = file)
  \* what it returns: the collection the text serializes, or the empty one
  /\ (pc'[p] = "resume")
     => IF Valid(data'[p])
        THEN Stringify(loadInventory(data'[p])) = data'[p]
        ELSE loadInventory(data'[p]) = <<>>
  \* the handler goes on with what the load returned, valid text or not
  /\ (pc[p] = "resume" /\ Steps(p))
     => /\ pc'[p] \in {"open", "photo", "done"}
        /\ pc'[p] = "open" => \A k \in 1..Len(inv'[p]) :
              inv'[p][k].id = req'[p].id \/ \E j \in 1..Len(Loaded(p)) : inv'[p][k].id = Loaded(p)[j].id
        /\ (req[p].op = "list") => resp'[p].items = Entries(IF Valid(data[p]) THEN JsonParse(data[p]).v ELSE <<>>)
  \* a valid document is the collection of the save that was completed last
  /\ (pc[p] = "write" /\ Steps(p) /\ Valid(file')) => file' = Stringify(inv[p])
  /\ (file' # file /\ Valid(file')) => \E q \in Procs : pc[q] = "write" /\ pc'[q] = "respond"

C17_Step(p) ==
  \* a 2xx answer to a mutation is sent by a handler whose save has returned
  /\ (Mutating(p) /\ pc'[p] = "done" /\ Steps(p) /\ resp'[p].status < 300)
     => pc[p] = "respond"
  \* when the save returns the document is the collection it was given
  /\ (Mutating(p) /\ pc'[p] = "respond" /\ Steps(p))
     => (pc[p] = "write" /\ file' = Stringify(inv[p]))

\* C17: a mutation is answered 2xx only after its save has returned, and when
\* its save returns the document holds the collection the handler wrote: no
\* 2xx answer to a mutation comes before the document held that collection.
C17_ResponseAfterSave == [][\A p \in Procs : C17_Step(p)]_vars

\* C18: once a delete for an id was answered 200 and no register has come in
\* since, then, whenever no request is in flight, the collection a get, search
\* or list sent now would load holds no item with that id, also when an
\* update-fields or replace-photo for the id overlapped the delete.
C18_DeletedStaysDeleted ==
  Idle => \A id \in deleted : First(Persisted, id) = 0

\* Slot p's handler has loaded, and its load fell back to the empty collection.
C19_LoadFailed(p) ==
  /\ pc[p] \in {"resume", "open", "write", "respond", "done"}
  /\ ~(req[p].op = "register" /\ pc[p] = "done" /\ resp[p].status = 400)
  /\ ~Valid(data[p])

\* C19: a mutating request whose load fell back to the empty collection
\* loses no item: an update-fields, replace-photo or delete ends in 404 and
\* never gets to its save, and a register does not write a collection that
\* holds only its new item over the document.
C19_FailedLoadLosesNothing ==
  \A p \in Procs :
    (Mutating(p) /\ C19_LoadFailed(p))
    => IF req[p].op = "register"
       THEN ~(pc[p] \in {"write", "respond"} /\ Len(inv[p]) = 1)
       ELSE /\ pc[p] \in {"resume", "done"}
            /\ pc[p] = "done" => resp[p].status = 404

=============================================================================
